---- MODULE Spec2Model ----
(***************************************************************************)
(* A model of MongoGridFS (src/src/mongo-gridfs.class.ts): a promise       *)
(* wrapper around the GridFSBucket of the MongoDB driver.  The bucket, the *)
(* local filesystem and the Node streams are the environment; every        *)
(* method of the class is modelled by the steps the event loop runs.       *)
(***************************************************************************)
EXTENDS Integers, Sequences, FiniteSets, TLC

VARIABLES
    store,      \* the bucket's files collection: a sequence of records
    nextId,     \* the next ObjectID the driver generates for an upload
    fs,         \* the local filesystem: path -> contents, for existing files
    deleted,    \* history: the ids for which delete() has resolved true
    call,       \* per caller: the method call in progress
    calls,      \* the number of calls made so far
    pathCall    \* one evaluation of the static getDownloadPath

vars == <<store, nextId, fs, deleted, call, calls, pathCall>>

\* ------------------------------------------------------------------ bounds
MaxId == 2          \* the driver generates at most this many ObjectIDs
MaxCalls == 3       \* the callers make at most this many calls in all

\* ------------------------------------------------------------ value domains
\* The concurrent callers of the wrapper.
Callers == {"c1", "c2"}
ObjectIDs == 1..MaxId

\* JavaScript values of a union type carry their typeof tag.
Undefined == [type |-> "undefined"]
Str(s) == [type |-> "string", val |-> s]
Bool(b) == [type |-> "boolean", val |-> b]

typeof(v) == v.type

\* JavaScript truthiness of a string | boolean | undefined value.
Truthy(v) ==
    CASE v.type = "undefined" -> FALSE
      [] v.type = "boolean" -> v.val
      [] v.type = "string" -> v.val # ""

\* `${object._id}`: ObjectID.toString() is the hexadecimal form of the id.
toHexString(oid) == "id" \o ToString(oid)

\* The strings new ObjectID(id) accepts, and the id each one parses to.
IdStrings == {toHexString(o) : o \in ObjectIDs}
BadIdString == "zz"
isValidId(s) == s \in IdStrings
ObjectID(s) == CHOOSE o \in ObjectIDs : toHexString(o) = s

Filenames == {"n1", "n2"}
Contents == {<<"a", "b">>, <<"b">>}

\* A metadata record (IGridFSObject): the fields the wrapper reads, and the
\* stored bytes the bucket keeps for it.
Record(oid, filename, content) ==
    [_id |-> oid, filename |-> filename, content |-> content]
Records == {Record(o, f, c) : o \in ObjectIDs, f \in Filenames, c \in Contents}

\* ------------------------------------------------------- getDownloadPath
osTmpdir == "/tmp"
UniqueNames == {"u1", "u2"}

\* unique-filename: path.join(dir, <random hash>); the hash is the input uniq.
uniqueFilename(dir, uniq) == dir \o "/" \o uniq

\* IDownloadOptions, or undefined when the caller passes none.
Options(filename, targetDir) ==
    [type |-> "object", filename |-> filename, targetDir |-> targetDir]
FilenameOptions == {Undefined, Bool(FALSE), Bool(TRUE), Str("S1"), Str("")}
TargetDirOptions == {Undefined, Str(""), Str("/out")}
AllOptions ==
    {Undefined} \cup {Options(f, t) : f \in FilenameOptions, t \in TargetDirOptions}

\* The default parameter value: options = {filename: false}.
DefaultOptions == Options(Bool(FALSE), Undefined)
withDefault(options) ==
    IF options.type = "undefined" THEN DefaultOptions ELSE options

isTrue(v) == v.type = "boolean" /\ v.val

getDownloadPath_JoinsTargetDir(object, options, uniq) ==
    LET o == withDefault(options) IN
    IF ~Truthy(o.targetDir)
    THEN IF typeof(o.filename) = "string"
         THEN osTmpdir \o "/" \o o.filename.val
         ELSE IF isTrue(o.filename)
              THEN osTmpdir \o "/" \o toHexString(object._id)
              ELSE uniqueFilename(osTmpdir, uniq)
    ELSE IF typeof(o.filename) = "string"
         THEN o.targetDir.val \o "/" \o o.filename.val
         ELSE IF isTrue(o.filename)
              THEN o.targetDir.val \o "/" \o object.filename
              ELSE uniqueFilename(o.targetDir.val, uniq)

getDownloadPath(object, options, uniq) ==
    LET o == withDefault(options) IN
    IF ~Truthy(o.targetDir)
    THEN IF typeof(o.filename) = "string"
         THEN osTmpdir \o "/" \o o.filename.val
         ELSE IF isTrue(o.filename)
              THEN osTmpdir \o "/" \o toHexString(object._id)
              ELSE uniqueFilename(osTmpdir, uniq)
    ELSE IF typeof(o.filename) = "string"
         THEN o.targetDir.val \o "/" \o o.filename.val
         ELSE IF isTrue(o.filename)
              THEN object.filename
              ELSE uniqueFilename(o.targetDir.val, uniq)

\* One evaluation of getDownloadPath: its inputs and, once done, its result.
PathInputs ==
    [object : Records, options : AllOptions, uniq : UniqueNames,
     done : {FALSE}, finalPath : {""}]
NoPathCall ==
    [object |-> Record(1, "n1", <<"b">>), options |-> Undefined, uniq |-> "u1",
     done |-> TRUE, finalPath |-> ""]

PathResolve ==
    /\ ~pathCall.done
    /\ pathCall' = [pathCall EXCEPT
           !.done = TRUE,
           !.finalPath = getDownloadPath(pathCall.object, pathCall.options,
                                         pathCall.uniq)]
    /\ UNCHANGED <<store, nextId, fs, deleted, call, calls>>

\* ---------------------------------------------------------------- promises
Pending == [state |-> "pending"]
Resolved(v) == [state |-> "resolved", value |-> v]
Rejected(e) == [state |-> "rejected", error |-> e]

\* A promise settles once: later resolve/reject calls are ignored.
resolve(promise, v) == IF promise.state = "pending" THEN Resolved(v) ELSE promise
reject(promise, e) == IF promise.state = "pending" THEN Rejected(e) ELSE promise

\* The outcome of an async function body: a returned value or a thrown error.
Return(v) == [ok |-> TRUE, value |-> v]
Throw(e) == [ok |-> FALSE, error |-> e]
settle(promise, outcome) ==
    IF outcome.ok THEN resolve(promise, outcome.value)
    ELSE reject(promise, outcome.error)

NotFound == "No Object found"
FileNotFound == "File not found"
InvalidIdentifier == "InvalidIdentifier"   \* thrown by new ObjectID(id)
StoreFileNotFound == "FileNotFound"        \* the bucket's delete error
ErrRead == "ReadError"                     \* 'error' of a source stream
ErrWrite == "WriteError"                   \* 'error' of fs.createWriteStream
ErrUpload == "UploadError"                 \* 'error' of the upload stream
ErrUnlink == "UnlinkError"                 \* thrown by fs.unlinkSync
Null == "null"

Idle == [op |-> "idle"]

\* ----------------------------------------------------- metadata query layer
\* The filters the callers use: {}, {_id: oid}, {filename: name}.
AllFilter == [kind |-> "all"]
IdFilter(oid) == [kind |-> "_id", oid |-> oid]
NameFilter(name) == [kind |-> "filename", name |-> name]
Filters ==
    {AllFilter} \cup {IdFilter(o) : o \in ObjectIDs}
                \cup {NameFilter(n) : n \in Filenames}

Matches(filter, r) ==
    CASE filter.kind = "all" -> TRUE
      [] filter.kind = "_id" -> r._id = filter.oid
      [] filter.kind = "filename" -> r.filename = filter.name

\* this.bucket.find(filter).toArray()
find(filter) == SelectSeq(store, LAMBDA r : Matches(filter, r))

findOne_NoEmptyCheck(filter) ==
    LET result == find(filter) IN
    IF Len(result) = 0 THEN Return(Undefined) ELSE Return(result[1])

findOne(filter) ==
    LET result == find(filter) IN
    IF Len(result) = 0 THEN Throw(NotFound) ELSE Return(result[1])

findById(id) ==
    IF ~isValidId(id) THEN Throw(InvalidIdentifier)
    ELSE findOne(IdFilter(ObjectID(id)))

CallIdStrings == IdStrings \cup {BadIdString}

CallFind(p, filter) ==
    /\ call[p] = Idle
    /\ calls < MaxCalls
    /\ calls' = calls + 1
    /\ call' = [call EXCEPT ![p] =
           [op |-> "find", pc |-> "query", filter |-> filter, promise |-> Pending]]
    /\ UNCHANGED <<store, nextId, fs, deleted, pathCall>>

FindReply(p) ==
    /\ call[p].op = "find" /\ call[p].pc = "query"
    /\ call' = [call EXCEPT ![p].pc = "done",
                            ![p].promise = resolve(@, find(call[p].filter))]
    /\ UNCHANGED <<store, nextId, fs, deleted, calls, pathCall>>

CallFindOne(p, filter) ==
    /\ call[p] = Idle
    /\ calls < MaxCalls
    /\ calls' = calls + 1
    /\ call' = [call EXCEPT ![p] =
           [op |-> "findOne", pc |-> "query", filter |-> filter,
            promise |-> Pending]]
    /\ UNCHANGED <<store, nextId, fs, deleted, pathCall>>

FindOneReply(p) ==
    /\ call[p].op = "findOne" /\ call[p].pc = "query"
    /\ call' = [call EXCEPT ![p].pc = "done",
                            ![p].promise = settle(@, findOne(call[p].filter))]
    /\ UNCHANGED <<store, nextId, fs, deleted, calls, pathCall>>

\* new ObjectID(id) throws before any query is sent.
CallFindById(p, id) ==
    /\ call[p] = Idle
    /\ calls < MaxCalls
    /\ calls' = calls + 1
    /\ call' = [call EXCEPT ![p] =
           IF isValidId(id)
           THEN [op |-> "findById", pc |-> "query", id |-> id, promise |-> Pending]
           ELSE [op |-> "findById", pc |-> "done", id |-> id,
                 promise |-> settle(Pending, findById(id))]]
    /\ UNCHANGED <<store, nextId, fs, deleted, pathCall>>

FindByIdReply(p) ==
    /\ call[p].op = "findById" /\ call[p].pc = "query"
    /\ call' = [call EXCEPT ![p].pc = "done",
                            ![p].promise = settle(@, findById(call[p].id))]
    /\ UNCHANGED <<store, nextId, fs, deleted, calls, pathCall>>

\* ------------------------------------------------------------ readFileStream
\* this.bucket.openDownloadStream(object._id): the stream handed to the caller.
openDownloadStream(oid) == [type |-> "stream", _id |-> oid]

readFileStream_NoLookup(id) ==
    IF ~isValidId(id) THEN Throw(InvalidIdentifier)
    ELSE Return(openDownloadStream(ObjectID(id)))

readFileStream(id) ==
    LET object == findById(id) IN
    IF object.ok THEN Return(openDownloadStream(object.value._id)) ELSE object

CallReadFileStream(p, id) ==
    /\ call[p] = Idle
    /\ calls < MaxCalls
    /\ calls' = calls + 1
    /\ call' = [call EXCEPT ![p] =
           IF isValidId(id)
           THEN [op |-> "readFileStream", pc |-> "query", id |-> id,
                 promise |-> Pending]
           ELSE [op |-> "readFileStream", pc |-> "done", id |-> id,
                 promise |-> settle(Pending, readFileStream(id))]]
    /\ UNCHANGED <<store, nextId, fs, deleted, pathCall>>

ReadFileStreamReply(p) ==
    /\ call[p].op = "readFileStream" /\ call[p].pc = "query"
    /\ call' = [call EXCEPT ![p].pc = "done",
                            ![p].promise = settle(@, readFileStream(call[p].id))]
    /\ UNCHANGED <<store, nextId, fs, deleted, calls, pathCall>>

\* -------------------------------------------------------------------- delete
HasRecord(oid) == \E i \in DOMAIN store : store[i]._id = oid

\* The callback of bucket.delete: if (err) reject(err); resolve(true).
deleteCallback_NoErrCheck(promise, err) == resolve(promise, TRUE)

deleteCallback(promise, err) ==
    LET p1 == IF err # Null THEN reject(promise, err) ELSE promise IN
    resolve(p1, TRUE)

\* new ObjectID(id) throws inside the promise executor: the promise rejects.
CallDelete(p, id) ==
    /\ call[p] = Idle
    /\ calls < MaxCalls
    /\ calls' = calls + 1
    /\ call' = [call EXCEPT ![p] =
           IF isValidId(id)
           THEN [op |-> "delete", pc |-> "deleting", id |-> id, err |-> Null,
                 promise |-> Pending]
           ELSE [op |-> "delete", pc |-> "done", id |-> id,
                 err |-> InvalidIdentifier,
                 promise |-> Rejected(InvalidIdentifier)]]
    /\ UNCHANGED <<store, nextId, fs, deleted, pathCall>>

\* The bucket removes the record and calls back, with an error when no record
\* has the id.
DeleteReply(p) ==
    /\ call[p].op = "delete" /\ call[p].pc = "deleting"
    /\ LET oid == ObjectID(call[p].id)
           err == IF HasRecord(oid) THEN Null ELSE StoreFileNotFound
           promise == deleteCallback(call[p].promise, err)
       IN /\ store' = SelectSeq(store, LAMBDA r : r._id # oid)
          /\ call' = [call EXCEPT ![p].pc = "done", ![p].err = err,
                                  ![p].promise = promise]
          /\ deleted' = IF promise.state = "resolved"
                        THEN deleted \cup {oid} ELSE deleted
    /\ UNCHANGED <<nextId, fs, calls, pathCall>>

\* ----------------------------------------------------------- local filesystem
\* The files present when the wrapper is constructed.
InitFs == ("/in/f1" :> <<"a", "b">>) @@ ("/in/f2" :> <<"b">>)
\* Paths the process may not remove: fs.unlinkSync throws for them.
LockedPaths == {"/in/f2"}
UploadPaths == {"/in/f1", "/in/f2", "/in/none"}
UploadNames == {"n1"}

existsSync(fsys, path) == path \in DOMAIN fsys
unlink(fsys, path) == [q \in DOMAIN fsys \ {path} |-> fsys[q]]

\* ------------------------------------------------ writeFileStream, uploadFile
\* tryDeleteFile: the filesystem it leaves, and whether unlinkSync threw.
tryDeleteFile(fsys, path, deleteFile) ==
    IF existsSync(fsys, path) /\ deleteFile = TRUE
    THEN IF path \in LockedPaths
         THEN [fs |-> fsys, threw |-> TRUE]
         ELSE [fs |-> unlink(fsys, path), threw |-> FALSE]
    ELSE [fs |-> fsys, threw |-> FALSE]

\* .then(tryDeleteFile).catch((err) => { tryDeleteFile(); throw err; }) applied
\* to the settled promise of writeFileStream: the filesystem afterwards and
\* the promise uploadFile returns.
uploadFileSettle(fsys, path, deleteFile, inner) ==
    IF inner.state = "resolved"
    THEN LET t1 == tryDeleteFile(fsys, path, deleteFile) IN
         IF ~t1.threw
         THEN [fs |-> t1.fs, promise |-> Resolved(inner.value)]
         ELSE LET t2 == tryDeleteFile(t1.fs, path, deleteFile) IN
              [fs |-> t2.fs, promise |-> Rejected(ErrUnlink)]
    ELSE LET t == tryDeleteFile(fsys, path, deleteFile) IN
         IF t.threw
         THEN [fs |-> t.fs, promise |-> Rejected(ErrUnlink)]
         ELSE [fs |-> t.fs, promise |-> Rejected(inner.error)]

IsUpload(c) == c.op \in {"writeFileStream", "uploadFile"}

\* writeFileStream called with a readable stream that will emit `content`.
CallWriteFileStream(p, content, filename) ==
    /\ call[p] = Idle
    /\ calls < MaxCalls
    /\ calls' = calls + 1
    /\ call' = [call EXCEPT ![p] =
           [op |-> "writeFileStream", filename |-> filename, src |-> "flowing",
            content |-> content, sent |-> <<>>, up |-> "open",
            inner |-> Pending, promise |-> Pending]]
    /\ UNCHANGED <<store, nextId, fs, deleted, pathCall>>

\* uploadFile: the existsSync check, then writeFileStream on a read stream
\* that opens the file later.
CallUploadFile(p, path, filename, deleteFile) ==
    /\ call[p] = Idle
    /\ calls < MaxCalls
    /\ calls' = calls + 1
    /\ call' = [call EXCEPT ![p] =
           IF ~existsSync(fs, path)
           THEN [op |-> "uploadFile", path |-> path, deleteFile |-> deleteFile,
                 filename |-> filename, src |-> "none", content |-> <<>>,
                 sent |-> <<>>, up |-> "none", inner |-> Pending,
                 promise |-> Rejected(FileNotFound)]
           ELSE [op |-> "uploadFile", path |-> path, deleteFile |-> deleteFile,
                 filename |-> filename, src |-> "unopened", content |-> <<>>,
                 sent |-> <<>>, up |-> "open", inner |-> Pending,
                 promise |-> Pending]]
    /\ UNCHANGED <<store, nextId, fs, deleted, pathCall>>

\* fs.createReadStream opens the file: its bytes are read through the open
\* descriptor; a missing file is an 'error' of the source stream.
SourceOpen(p) ==
    /\ call[p].op = "uploadFile"
    /\ call[p].src = "unopened" /\ call[p].up = "open"
    /\ call' = [call EXCEPT ![p] =
           IF existsSync(fs, call[p].path)
           THEN [@ EXCEPT !.src = "flowing", !.content = fs[call[p].path]]
           ELSE [@ EXCEPT !.src = "errored"]]
    /\ UNCHANGED <<store, nextId, fs, deleted, calls, pathCall>>

\* pipe: a chunk of the source is written to the upload stream.
SourceData(p) ==
    /\ IsUpload(call[p])
    /\ call[p].src = "flowing" /\ call[p].up = "open"
    /\ Len(call[p].sent) < Len(call[p].content)
    /\ call' = [call EXCEPT ![p].sent =
           Append(@, call[p].content[Len(call[p].sent) + 1])]
    /\ UNCHANGED <<store, nextId, fs, deleted, calls, pathCall>>

\* pipe: 'end' of the source ends the upload stream.
SourceEnd(p) ==
    /\ IsUpload(call[p])
    /\ call[p].src = "flowing" /\ call[p].up = "open"
    /\ Len(call[p].sent) = Len(call[p].content)
    /\ call' = [call EXCEPT ![p].src = "ended", ![p].up = "ending"]
    /\ UNCHANGED <<store, nextId, fs, deleted, calls, pathCall>>

\* 'error' of the source stream: pipe() returned the upload stream, so the
\* handlers of writeFileStream are on the upload stream only; nothing listens
\* here, and the upload stream is neither ended nor destroyed.
SourceError(p) ==
    /\ IsUpload(call[p])
    /\ call[p].src = "flowing" /\ call[p].up = "open"
    /\ call' = [call EXCEPT ![p].src = "errored"]
    /\ UNCHANGED <<store, nextId, fs, deleted, calls, pathCall>>

\* The promises after the upload stream's event settled writeFileStream's.
uploadSettled(c, fsys, inner) ==
    IF c.op = "uploadFile"
    THEN uploadFileSettle(fsys, c.path, c.deleteFile, inner)
    ELSE [fs |-> fsys, promise |-> inner]

\* 'finish' of the upload stream: the driver has stored the file under a
\* fresh id and reports its record; .on('finish') resolves with it.
UploadFinish(p) ==
    /\ IsUpload(call[p])
    /\ call[p].up = "ending"
    /\ nextId <= MaxId
    /\ LET item == Record(nextId, call[p].filename, call[p].sent)
           inner == resolve(call[p].inner, item)
           after == uploadSettled(call[p], fs, inner)
       IN /\ store' = Append(store, item)
          /\ nextId' = nextId + 1
          /\ fs' = after.fs
          /\ call' = [call EXCEPT ![p].up = "finished", ![p].inner = inner,
                                  ![p].promise = after.promise]
    /\ UNCHANGED <<deleted, calls, pathCall>>

\* 'error' of the upload stream: .on('error') rejects with it; pipe unpipes
\* the source.
UploadError(p) ==
    /\ IsUpload(call[p])
    /\ call[p].up \in {"open", "ending"}
    /\ LET inner == reject(call[p].inner, ErrUpload)
           after == uploadSettled(call[p], fs, inner)
       IN /\ fs' = after.fs
          /\ call' = [call EXCEPT
                 ![p].up = "errored",
                 ![p].src = IF @ \in {"unopened", "flowing"} THEN "paused" ELSE @,
                 ![p].inner = inner,
                 ![p].promise = after.promise]
    /\ UNCHANGED <<store, nextId, deleted, calls, pathCall>>

\* -------------------------------------------------------------- downloadFile
\* The options the callers of downloadFile pass.
DownloadOptions ==
    {Options(Str("S1"), Undefined), Options(Bool(TRUE), Undefined)}

\* A chunk-sized hole left in a file by a write past its end.
Hole == "0"

\* fs.createWriteStream(path, {}) opens with flags 'w': the file is created
\* or truncated.
createWriteStream_NoTruncate(fsys, path) ==
    IF path \in DOMAIN fsys THEN fsys ELSE (path :> <<>>) @@ fsys

createWriteStream(fsys, path) ==
    (path :> <<>>) @@ [q \in DOMAIN fsys \ {path} |-> fsys[q]]

\* A write stream writes its k-th chunk at its own offset k of the file.
writeAt(file, k, chunk) ==
    IF k <= Len(file) THEN [file EXCEPT ![k] = chunk]
    ELSE file \o [i \in 1..(k - 1 - Len(file)) |-> Hole] \o <<chunk>>

IsTransfer(c) == c.op = "downloadFile" /\ c.pc = "streaming"
\* The transfer may still open or write its local file.
MayWrite(c) == IsTransfer(c) /\ c.dst \in {"unopened", "open"}
\* The transfer may still read its record.
MayRead(c) == IsTransfer(c) /\ c.src = "flowing"

\* unique-filename draws a random name: one that no transfer in progress has
\* drawn.
FreshName(p, uniq) ==
    \A q \in Callers \ {p} :
        IsTransfer(call[q]) =>
            call[q].path \notin {uniqueFilename(dir, uniq) : dir \in {osTmpdir, "/out"}}

CallDownloadFile(p, id, options) ==
    /\ call[p] = Idle
    /\ calls < MaxCalls
    /\ calls' = calls + 1
    /\ call' = [call EXCEPT ![p] =
           IF isValidId(id)
           THEN [op |-> "downloadFile", pc |-> "query", id |-> id,
                 options |-> options, promise |-> Pending]
           ELSE [op |-> "downloadFile", pc |-> "done", id |-> id,
                 promise |-> settle(Pending, findById(id))]]
    /\ UNCHANGED <<store, nextId, fs, deleted, pathCall>>

\* The reply to findById: NotFound rejects; otherwise the path is resolved,
\* the download stream is opened and piped into a write stream on the path.
\* sharedPath / sharedRec record that another transfer in progress uses the
\* same local path / the same record.
DownloadFileReply(p, uniq) ==
    /\ call[p].op = "downloadFile" /\ call[p].pc = "query"
    /\ FreshName(p, uniq)
    /\ LET object == findById(call[p].id) IN
       IF ~object.ok
       THEN call' = [call EXCEPT ![p] =
                [op |-> "downloadFile", pc |-> "done", id |-> call[p].id,
                 promise |-> settle(call[p].promise, object)]]
       ELSE LET downloadPath ==
                    getDownloadPath(object.value, call[p].options, uniq)
                samePath == {q \in Callers \ {p} :
                                MayWrite(call[q]) /\ call[q].path = downloadPath}
                sameRec == {q \in Callers \ {p} :
                               /\ MayWrite(call[q]) \/ MayRead(call[q])
                               /\ call[q].object._id = object.value._id}
            IN call' = [q \in Callers |->
                   IF q = p
                   THEN [op |-> "downloadFile", pc |-> "streaming",
                         id |-> call[p].id, object |-> object.value,
                         path |-> downloadPath, src |-> "flowing",
                         dst |-> "unopened", pos |-> 0, wpos |-> 0,
                         promise |-> call[p].promise,
                         sharedPath |-> samePath # {},
                         sharedRec |-> sameRec # {}]
                   ELSE IF q \in samePath \cup sameRec
                   THEN [call[q] EXCEPT
                            !.sharedPath = @ \/ q \in samePath,
                            !.sharedRec = @ \/ q \in sameRec]
                   ELSE call[q]]
    /\ UNCHANGED <<store, nextId, fs, deleted, calls, pathCall>>

\* 'data' of the download stream: pipe writes the chunk to the write stream,
\* which buffers it.  The chunks of a deleted record cannot be read.
DownloadData(p) ==
    /\ IsTransfer(call[p])
    /\ call[p].src = "flowing"
    /\ call[p].pos < Len(call[p].object.content)
    /\ HasRecord(call[p].object._id)
    /\ call' = [call EXCEPT ![p].pos = @ + 1]
    /\ UNCHANGED <<store, nextId, fs, deleted, calls, pathCall>>

\* 'end' of the download stream: .once('end') resolves with the path, and
\* pipe ends the write stream.
DownloadEnd(p) ==
    /\ IsTransfer(call[p])
    /\ call[p].src = "flowing"
    /\ call[p].pos = Len(call[p].object.content)
    /\ call' = [call EXCEPT ![p].src = "ended",
                            ![p].promise = resolve(@, call[p].path)]
    /\ UNCHANGED <<store, nextId, fs, deleted, calls, pathCall>>

\* 'error' of the download stream: .once('error') rejects with it.
DownloadError(p) ==
    /\ IsTransfer(call[p])
    /\ call[p].src = "flowing"
    /\ call' = [call EXCEPT ![p].src = "errored",
                            ![p].promise = reject(@, ErrRead)]
    /\ UNCHANGED <<store, nextId, fs, deleted, calls, pathCall>>

\* The write stream opens its file.
FileOpen(p) ==
    /\ IsTransfer(call[p])
    /\ call[p].dst = "unopened"
    /\ fs' = createWriteStream(fs, call[p].path)
    /\ call' = [call EXCEPT ![p].dst = "open"]
    /\ UNCHANGED <<store, nextId, deleted, calls, pathCall>>

\* The write stream writes its next buffered chunk to the file.
FileWrite(p) ==
    /\ IsTransfer(call[p])
    /\ call[p].dst = "open"
    /\ call[p].wpos < call[p].pos
    /\ fs' = [fs EXCEPT ![call[p].path] =
           writeAt(@, call[p].wpos + 1, call[p].object.content[call[p].wpos + 1])]
    /\ call' = [call EXCEPT ![p].wpos = @ + 1]
    /\ UNCHANGED <<store, nextId, deleted, calls, pathCall>>

\* 'finish' of the write stream: it was ended and has written every chunk.
FileFinish(p) ==
    /\ IsTransfer(call[p])
    /\ call[p].dst = "open" /\ call[p].src = "ended"
    /\ call[p].wpos = call[p].pos
    /\ call' = [call EXCEPT ![p].dst = "finished"]
    /\ UNCHANGED <<store, nextId, fs, deleted, calls, pathCall>>

\* 'error' of the write stream (the open or a write fails): downloadFile has
\* no handler on it; pipe's own handler unpipes, which pauses the download
\* stream, so neither 'end' nor 'error' of it follows.
FileError(p) ==
    /\ IsTransfer(call[p])
    /\ call[p].dst \in {"unopened", "open"}
    /\ call' = [call EXCEPT ![p].dst = "errored",
                            ![p].src = IF @ = "flowing" THEN "paused" ELSE @]
    /\ UNCHANGED <<store, nextId, fs, deleted, calls, pathCall>>

\* ------------------------------------------------------------ the callers
\* Nothing more happens for the call: its promise is settled and its streams
\* are at rest.
Quiescent(c) ==
    CASE c.op \in {"find", "findOne", "findById", "readFileStream", "delete"} ->
             c.pc = "done"
      [] IsUpload(c) -> c.promise.state # "pending"
      [] c.op = "downloadFile" ->
             \/ c.pc = "done"
             \/ /\ c.pc = "streaming"
                /\ c.promise.state # "pending"
                /\ c.src # "flowing"
                /\ \/ c.dst \in {"finished", "errored"}
                   \/ c.dst = "open" /\ c.src = "errored" /\ c.wpos = c.pos
      [] OTHER -> FALSE

\* The caller has its result and makes its next call.
Release(p) ==
    /\ Quiescent(call[p])
    /\ call' = [call EXCEPT ![p] = Idle]
    /\ UNCHANGED <<store, nextId, fs, deleted, calls, pathCall>>

Init ==
    /\ store = <<>>
    /\ nextId = 1
    /\ fs = InitFs
    /\ deleted = {}
    /\ calls = 0
    /\ call = [p \in Callers |-> Idle]
    /\ pathCall = NoPathCall

Next ==
    \E p \in Callers :
        \/ \E filter \in Filters : CallFind(p, filter)
        \/ FindReply(p)
        \/ \E filter \in Filters : CallFindOne(p, filter)
        \/ FindOneReply(p)
        \/ \E id \in CallIdStrings : CallFindById(p, id)
        \/ FindByIdReply(p)
        \/ \E id \in CallIdStrings : CallReadFileStream(p, id)
        \/ ReadFileStreamReply(p)
        \/ \E id \in CallIdStrings : CallDelete(p, id)
        \/ DeleteReply(p)
        \/ \E content \in Contents, filename \in UploadNames :
               CallWriteFileStream(p, content, filename)
        \/ \E path \in UploadPaths, filename \in UploadNames,
              deleteFile \in BOOLEAN :
               CallUploadFile(p, path, filename, deleteFile)
        \/ SourceOpen(p)
        \/ SourceData(p)
        \/ SourceEnd(p)
        \/ SourceError(p)
        \/ UploadFinish(p)
        \/ UploadError(p)
        \/ \E id \in CallIdStrings, options \in DownloadOptions :
               CallDownloadFile(p, id, options)
        \/ \E uniq \in UniqueNames : DownloadFileReply(p, uniq)
        \/ DownloadData(p)
        \/ DownloadEnd(p)
        \/ DownloadError(p)
        \/ FileOpen(p)
        \/ FileWrite(p)
        \/ FileFinish(p)
        \/ FileError(p)
        \/ Release(p)

Spec == Init /\ [][Next]_vars

\* The static path resolver on its own: any record, any options.
InitPath ==
    /\ store = <<>>
    /\ nextId = 1
    /\ fs = InitFs
    /\ deleted = {}
    /\ calls = 0
    /\ call = [p \in Callers |-> Idle]
    /\ pathCall \in PathInputs

NextPath == PathResolve

SpecPath == InitPath /\ [][NextPath]_vars

\* ------------------------------------------- the layers, each with its callers
\* The metadata query layer and delete, over a store that uploads fill.
QueryStep(p) ==
    \/ \E filter \in Filters : CallFind(p, filter)
    \/ FindReply(p)
    \/ \E filter \in Filters : CallFindOne(p, filter)
    \/ FindOneReply(p)
    \/ \E id \in CallIdStrings : CallFindById(p, id)
    \/ FindByIdReply(p)
    \/ \E id \in CallIdStrings : CallReadFileStream(p, id)
    \/ ReadFileStreamReply(p)
    \/ \E id \in CallIdStrings : CallDelete(p, id)
    \/ DeleteReply(p)

DownloadStep(p) ==
    \/ \E id \in CallIdStrings, options \in DownloadOptions :
           CallDownloadFile(p, id, options)
    \/ \E uniq \in UniqueNames : DownloadFileReply(p, uniq)
    \/ DownloadData(p)
    \/ DownloadEnd(p)
    \/ DownloadError(p)
    \/ FileOpen(p)
    \/ FileWrite(p)
    \/ FileFinish(p)
    \/ FileError(p)

WriteStep(p) ==
    \/ SourceData(p)
    \/ SourceEnd(p)
    \/ SourceError(p)
    \/ UploadFinish(p)
    \/ UploadError(p)

NextStore ==
    \E p \in Callers :
        \/ QueryStep(p)
        \/ \E filename \in Filenames : CallWriteFileStream(p, <<"b">>, filename)
        \/ WriteStep(p)
        \/ DownloadStep(p)
        \/ Release(p)

SpecStore == Init /\ [][NextStore]_vars

\* The uploads: writeFileStream and uploadFile over the local files.
NextUpload ==
    \E p \in Callers :
        \/ \E content \in Contents, filename \in UploadNames :
               CallWriteFileStream(p, content, filename)
        \/ \E path \in UploadPaths, filename \in UploadNames,
              deleteFile \in BOOLEAN :
               CallUploadFile(p, path, filename, deleteFile)
        \/ SourceOpen(p)
        \/ WriteStep(p)
        \/ Release(p)

SpecUpload == Init /\ [][NextUpload]_vars

\* The downloads, from a bucket that holds the two local files, uploaded
\* earlier with deleteFile = false.
InitDownload ==
    /\ store = <<Record(1, "n1", InitFs["/in/f1"]),
                 Record(2, "n1", InitFs["/in/f2"])>>
    /\ nextId = 3
    /\ fs = InitFs
    /\ deleted = {}
    /\ calls = 0
    /\ call = [p \in Callers |-> Idle]
    /\ pathCall = NoPathCall

NextDownload ==
    \E p \in Callers :
        \/ DownloadStep(p)
        \/ Release(p)

SpecDownload == InitDownload /\ [][NextDownload]_vars

\* ============================================================== properties

\* ---- C1 -------------------------------------------------------------------
\* A targetDir is present when it is a non-empty string: the code tests its
\* truthiness.
DirGiven(options) ==
    /\ options.type = "object"
    /\ options.targetDir.type = "string"
    /\ options.targetDir.val # ""
FilenameIsString(options) ==
    options.type = "object" /\ options.filename.type = "string"
FilenameIsTrue(options) ==
    /\ options.type = "object"
    /\ options.filename.type = "boolean"
    /\ options.filename.val = TRUE

\* C1: getDownloadPath follows the six rows of the decision table, for every
\* record and every combination of targetDir and filename, and leaves the
\* store, the filesystem and the calls as they were.
C1_PathTable ==
    pathCall.done =>
        LET o == pathCall.options
            r == pathCall.object
            path == pathCall.finalPath
        IN /\ ~DirGiven(o) /\ FilenameIsString(o)
                => path = "/tmp/" \o o.filename.val
           /\ ~DirGiven(o) /\ FilenameIsTrue(o)
                => path = "/tmp/" \o toHexString(r._id)
           /\ ~DirGiven(o) /\ ~FilenameIsString(o) /\ ~FilenameIsTrue(o)
                => path \in {"/tmp/" \o u : u \in UniqueNames}
           /\ DirGiven(o) /\ FilenameIsString(o)
                => path = o.targetDir.val \o "/" \o o.filename.val
           /\ DirGiven(o) /\ FilenameIsTrue(o)
                => path = r.filename
           /\ DirGiven(o) /\ ~FilenameIsString(o) /\ ~FilenameIsTrue(o)
                => path \in {o.targetDir.val \o "/" \o u : u \in UniqueNames}
           /\ store = <<>> /\ fs = InitFs /\ deleted = {}
           /\ \A p \in Callers : call[p] = Idle

\* The row the table singles out: targetDir given, filename true.
C1_Witness ==
    /\ pathCall.done
    /\ DirGiven(pathCall.options) /\ FilenameIsTrue(pathCall.options)
    /\ pathCall.finalPath = pathCall.object.filename

\* ---- C2 -------------------------------------------------------------------
\* The filter a query call sends to the store.
FilterOf(c) == IF c.op = "findById" THEN IdFilter(ObjectID(c.id)) ELSE c.filter
\* The positions of the store's records the filter matches.
Matching(filter) == {i \in DOMAIN store : Matches(filter, store[i])}
FirstMatch(filter) ==
    store[CHOOSE i \in Matching(filter) : \A j \in Matching(filter) : i <= j]

\* C2: when the store answers a query that matches no record, find resolves
\* with the empty sequence and findOne / findById reject with NotFound; when
\* some record matches, findOne resolves with the first record find returns.
C2_ZeroMatches ==
    [][\A p \in Callers :
          (/\ call[p].op \in {"find", "findOne", "findById"}
           /\ call[p].pc = "query"
           /\ call'[p].op = call[p].op /\ call'[p].pc = "done")
          => LET f == FilterOf(call[p])
                 settled == call'[p].promise
             IN /\ (Matching(f) = {} /\ call[p].op = "find")
                      => settled.state = "resolved" /\ settled.value = <<>>
                /\ (Matching(f) = {} /\ call[p].op # "find")
                      => settled.state = "rejected" /\ settled.error = NotFound
                /\ (Matching(f) # {} /\ call[p].op = "findOne")
                      => /\ settled.state = "resolved"
                         /\ settled.value = FirstMatch(f)
                         /\ settled.value = find(f)[1]
      ]_vars

\* findOne has rejected with NotFound although the store holds records.
C2_Witness ==
    \E p \in Callers :
        /\ call[p].op = "findOne" /\ call[p].pc = "done"
        /\ call[p].promise.state = "rejected"
        /\ call[p].promise.error = NotFound
        /\ store # <<>>
        /\ Matching(call[p].filter) = {}

\* ---- C7 -------------------------------------------------------------------
\* C7: delete resolves true exactly when the bucket's delete reported no
\* error, and rejects with the reported error, unchanged, otherwise.
C7_DeleteOutcome ==
    \A p \in Callers :
        (call[p].op = "delete" /\ call[p].pc = "done")
        => /\ call[p].err = Null
                => /\ call[p].promise.state = "resolved"
                   /\ call[p].promise.value = TRUE
           /\ call[p].err # Null
                => /\ call[p].promise.state = "rejected"
                   /\ call[p].promise.error = call[p].err

\* The bucket has reported an error for a well-formed id.
C7_Witness ==
    \E p \in Callers :
        /\ call[p].op = "delete" /\ call[p].pc = "done"
        /\ call[p].err = StoreFileNotFound
        /\ call[p].promise.state = "rejected"

\* ---- C8 -------------------------------------------------------------------
\* C8: once delete(id) has resolved, every answer to a findById(id),
\* readFileStream(id) or downloadFile(id) query is the NotFound rejection,
\* whatever calls were made in between.
C8_DeletedStaysInvisible ==
    [][\A p \in Callers :
          (/\ call[p].op \in {"findById", "readFileStream", "downloadFile"}
           /\ call[p].pc = "query"
           /\ call'[p].op = call[p].op /\ call'[p].pc # "query"
           /\ ObjectID(call[p].id) \in deleted)
          => /\ call'[p].pc = "done"
             /\ call'[p].promise.state = "rejected"
             /\ call'[p].promise.error = NotFound
      ]_vars

\* A query for an id has been answered after delete resolved for that id.
C8_Witness ==
    \E p \in Callers :
        /\ call[p].op \in {"findById", "readFileStream", "downloadFile"}
        /\ call[p].pc = "done"
        /\ isValidId(call[p].id)
        /\ ObjectID(call[p].id) \in deleted
        /\ call[p].promise.state = "rejected"
        /\ call[p].promise.error = NotFound

\* ---- C3 -------------------------------------------------------------------
\* The upload attempt of an uploadFile call is over: the upload stream has
\* finished or failed, or the source stream has failed.
AttemptOver(c) == c.up \in {"finished", "errored"} \/ c.src = "errored"

\* C3: in the step that ends the upload attempt of an uploadFile call on a
\* removable source file, deleteFile = true leaves the file removed and the
\* call settled, and deleteFile = false leaves the file in place.
C3_SourceRemoved ==
    [][\A p \in Callers :
          (/\ call[p].op = "uploadFile" /\ call'[p].op = "uploadFile"
           /\ ~AttemptOver(call[p]) /\ AttemptOver(call'[p])
           /\ call[p].path \notin LockedPaths)
          => IF call[p].deleteFile
             THEN /\ ~existsSync(fs', call[p].path)
                  /\ call'[p].promise.state # "pending"
             ELSE existsSync(fs, call[p].path) => existsSync(fs', call[p].path)
      ]_vars

\* ---- C6 -------------------------------------------------------------------
\* C6: the promise of writeFileStream is resolved with the stored record once
\* the upload stream has finished, and rejected once the upload stream or the
\* source stream has failed.
C6_WriteSettles ==
    \A p \in Callers :
        IsUpload(call[p])
        => /\ call[p].up = "finished"
                => /\ call[p].inner.state = "resolved"
                   /\ call[p].inner.value.filename = call[p].filename
                   /\ call[p].inner.value.content = call[p].content
           /\ call[p].up = "errored"
                => /\ call[p].inner.state = "rejected"
                   /\ call[p].inner.error = ErrUpload
           /\ call[p].src = "errored"
                => call[p].inner.state = "rejected"

\* ---- C10 ------------------------------------------------------------------
\* C10: whatever the removal of the source file does, uploadFile reports a
\* finished upload as the stored record and a failed upload as the upload's
\* own error.
C10_CleanupSilent ==
    \A p \in Callers :
        call[p].op = "uploadFile"
        => /\ call[p].up = "finished"
                => /\ call[p].promise.state = "resolved"
                   /\ call[p].promise.value = call[p].inner.value
           /\ call[p].up = "errored"
                => /\ call[p].promise.state = "rejected"
                   /\ call[p].promise.error = ErrUpload

\* ---- C4 -------------------------------------------------------------------
\* C4: a downloadFile promise is resolved, with the resolved path, only when
\* the write stream has finished, and is rejected once the download stream or
\* the write stream has failed.
C4_DownloadSettles ==
    \A p \in Callers :
        IsTransfer(call[p])
        => /\ call[p].promise.state = "resolved"
                => /\ call[p].promise.value = call[p].path
                   /\ call[p].dst = "finished"
           /\ (call[p].src = "errored" \/ call[p].dst = "errored")
                => call[p].promise.state = "rejected"

\* ---- C5 -------------------------------------------------------------------
\* C5: in the step that resolves a downloadFile call whose path no other
\* transfer has used meanwhile, the file at the resolved path holds the bytes
\* that were uploaded for the record.
C5_RoundTrip ==
    [][\A p \in Callers :
          (/\ IsTransfer(call[p]) /\ IsTransfer(call'[p])
           /\ call[p].promise.state = "pending"
           /\ call'[p].promise.state = "resolved"
           /\ ~call[p].sharedPath)
          => /\ existsSync(fs', call[p].path)
             /\ fs'[call[p].path] = call[p].object.content
      ]_vars

====
